---- MODULE Spec2Model ----
(***************************************************************************)
(* Model of build.py: discovery of custom resources, packaging of each     *)
(* resource's Lambda code into a ZIP file, and assembly of the              *)
(* CloudFormation template.                                                 *)
(*                                                                          *)
(* Strings are sequences of one-character strings, so that str.startswith, *)
(* slicing, str.join, os.path.split and os.path.join are computed           *)
(* character by character as Python computes them.                          *)
(***************************************************************************)
EXTENDS Naturals, Sequences, FiniteSets, Bags, TLC

(***************************************************************************)
(* Bounds of the model.                                                     *)
(***************************************************************************)
MaxSegs == 3
MaxSegLen == 2
MaxLambdaDirs == 2

(***************************************************************************)
(* String helpers (Python str operations).                                  *)
(***************************************************************************)
SEP == <<"/">>

\* s.startswith(p)
StartsWith(s, p) == Len(s) >= Len(p) /\ SubSeq(s, 1, Len(p)) = p

\* s.endswith(p)
EndsWith(s, p) == Len(s) >= Len(p) /\ SubSeq(s, Len(s) - Len(p) + 1, Len(s)) = p

\* s[n:]
DropChars(s, n) == SubSeq(s, n + 1, Len(s))

\* s[:n]
TakeChars(s, n) == SubSeq(s, 1, IF n < Len(s) THEN n ELSE Len(s))

\* s.rfind('/') + 1: the index (1-based) of the last separator, 0 if none
RFindSep(s) ==
  LET idx == {i \in 1..Len(s) : s[i] = "/"}
  IN  IF idx = {} THEN 0 ELSE CHOOSE i \in idx : \A j \in idx : j <= i

\* s.rstrip('/')
RECURSIVE RStripSep(_)
RStripSep(s) ==
  IF Len(s) > 0 /\ s[Len(s)] = "/" THEN RStripSep(SubSeq(s, 1, Len(s) - 1)) ELSE s

AllSep(s) == \A i \in 1..Len(s) : s[i] = "/"

\* sep.join(list)
RECURSIVE StrJoin(_, _)
StrJoin(sep, list) ==
  IF Len(list) = 0 THEN <<>>
  ELSE IF Len(list) = 1 THEN list[1]
  ELSE list[1] \o sep \o StrJoin(sep, Tail(list))

(***************************************************************************)
(* posixpath.split and posixpath.join, as called from rec_split_path and   *)
(* rec_join_path.                                                           *)
(***************************************************************************)
OsPathSplitKeepSep(p) ==
  LET i == RFindSep(p)
  IN  <<TakeChars(p, i), DropChars(p, i)>>

OsPathSplit(p) ==
  LET i == RFindSep(p)
      h == TakeChars(p, i)
      t == DropChars(p, i)
  IN  <<IF Len(h) > 0 /\ ~AllSep(h) THEN RStripSep(h) ELSE h, t>>

OsPathJoin(a, b) ==
  IF StartsWith(b, SEP) THEN b
  ELSE IF Len(a) = 0 \/ EndsWith(a, SEP) THEN a \o b
  ELSE a \o SEP \o b

(***************************************************************************)
(* rec_split_path and rec_join_path as functions (used by discovery).      *)
(***************************************************************************)
RECURSIVE SplitLoop(_, _)
SplitLoop(head, l) ==
  IF Len(head) > 0
  THEN LET ht == OsPathSplit(head) IN SplitLoop(ht[1], <<ht[2]>> \o l)
  ELSE l

rec_split_path(path) == SplitLoop(path, <<>>)

RECURSIVE JoinLoop(_, _)
JoinLoop(path, path_list) ==
  IF Len(path_list) > 0
  THEN JoinLoop(OsPathJoin(path, Head(path_list)), Tail(path_list))
  ELSE path

rec_join_path(path_list) ==
  IF Len(path_list) = 0 THEN <<>>
  ELSE IF Len(path_list) = 1 THEN path_list[1]
  ELSE JoinLoop(Head(path_list), Tail(path_list))

(***************************************************************************)
(* Program constants of build.py.                                          *)
(***************************************************************************)
None == <<>>
REQUIREMENTS_TXT == <<"r", "e", "q", "u", "i", "r", "e", "m", "e", "n", "t", "s", ".", "t", "x", "t">>
TEST == <<"t", "e", "s", "t">>
PYCACHE == <<"_", "_", "p", "y", "c", "a", "c", "h", "e", "_", "_">>
DOT == <<".">>
ZERO == <<"0">>
DOT_PY == <<".", "p", "y">>
DOT_ZIP == <<".", "z", "i", "p">>
ROLE == <<"R", "o", "l", "e">>
FUNCTION == <<"F", "u", "n", "c", "t", "i", "o", "n">>
LOGS == <<"L", "o", "g", "s">>
SERVICE_TOKEN == <<"S", "e", "r", "v", "i", "c", "e", "T", "o", "k", "e", "n">>
STACK_NAME_DASH == <<"$", "{", "A", "W", "S", ":", ":", "S", "t", "a", "c", "k", "N", "a", "m", "e", "}", "-">>
DASH_STACK_NAME == <<"-", "$", "{", "A", "W", "S", ":", ":", "S", "t", "a", "c", "k", "N", "a", "m", "e", "}">>
AWS_LAMBDA_SLASH == <<"/", "a", "w", "s", "/", "l", "a", "m", "b", "d", "a", "/">>
CFN_JSON == <<"c", "f", "n", ".", "j", "s", "o", "n">>
RetentionInDays == 90

(***************************************************************************)
(* Command line: --class-dir, --lambda-dir, --output-dir.                  *)
(***************************************************************************)
class_dir == <<"c">>
lambda_dir == <<"l">>
output_dir == <<"o">>

(***************************************************************************)
(* The class directory walked by defined_custom_resources: os.walk yields  *)
(* (dirpath, files); importing a module and dir(mod) yields its attributes. *)
(***************************************************************************)
ClassDirFiles ==
  { <<<<"c", "/", "n">>, <<"_", "_", "i", "n", "i", "t", "_", "_", ".", "p", "y">>>>,
    <<<<"c", "/", "n">>, <<"m", ".", "p", "y">>>>,
    <<<<"c", "/", "n">>, <<"m", "0", "C", ".", "p", "y">>>>,
    <<<<"c", "/", "n">>, <<".", "d", ".", "p", "y">>>>,
    <<<<"c", "/", "n">>, <<"r", ".", "t", "x", "t">>>> }

\* dir(mod) with getattr: attribute name, the object bound to it, and whether
\* that object is a class.  Module n.m re-exports class D of module n.m0C.
ModuleAttrs(module_location) ==
  IF module_location = <<<<"n">>, <<"m">>>>
  THEN { [name |-> <<"C", "0", "D">>, value |-> "class C0D", is_type |-> TRUE],
         [name |-> <<"D">>, value |-> "class D", is_type |-> TRUE],
         [name |-> <<"_", "P">>, value |-> "class _P", is_type |-> TRUE],
         [name |-> <<"v">>, value |-> "value v", is_type |-> FALSE] }
  ELSE IF module_location = <<<<"n">>, <<"m", "0", "C">>>>
  THEN { [name |-> <<"D">>, value |-> "class D", is_type |-> TRUE] }
  ELSE {}

(***************************************************************************)
(* defined_custom_resources.                                               *)
(***************************************************************************)
\* the filters on a walked file name
EligibleFile(file) ==
  /\ ~StartsWith(file, DOT)
  /\ ~StartsWith(file, <<"_">>)
  /\ EndsWith(file, DOT_PY)

\* fs_path of a walked file: relative directory joined with the file name
\* without its .py
FsPath(dirpath, file) ==
  LET file_without_py == TakeChars(file, Len(file) - 3)
      relative_dir == DropChars(dirpath, Len(class_dir) + 1)
  IN  OsPathJoin(relative_dir, file_without_py)

LambdaCodeDir(fs_path, candidate_class_name) ==
  rec_join_path(<<lambda_dir, fs_path, candidate_class_name>>)

\* the CustomResource objects one walked file yields, given the directories
\* that exist
FileResources(dirpath, file, dirs) ==
  LET fs_path == FsPath(dirpath, file)
      module_location == rec_split_path(fs_path)
  IN  { [name |-> module_location \o <<a.name>>,
         lambda_path |-> LambdaCodeDir(fs_path, a.name),
         troposphere_class |-> a.value] :
        a \in { b \in ModuleAttrs(module_location) :
                  /\ ~StartsWith(b.name, <<"_">>)
                  /\ b.is_type
                  /\ LambdaCodeDir(fs_path, b.name) \in dirs } }

\* set.add with CustomResource.__eq__ / __hash__: an object equal to one
\* already in the set (same troposphere_class) is not added
SetAdd(set, cr) ==
  IF \E x \in set : x.troposphere_class = cr.troposphere_class
  THEN set ELSE set \cup {cr}

RECURSIVE SetAddAll(_, _)
SetAddAll(set, crs) ==
  IF crs = {} THEN set
  ELSE LET cr == CHOOSE x \in crs : TRUE
       IN  SetAddAll(SetAdd(set, cr), crs \ {cr})

\* the walk over the files in the order os.walk yields them
RECURSIVE Walk(_, _, _)
Walk(order, dirs, set) ==
  IF Len(order) = 0 THEN set
  ELSE LET f == Head(order)
       IN  Walk(Tail(order), dirs,
                IF EligibleFile(f[2])
                THEN SetAddAll(set, FileResources(f[1], f[2], dirs))
                ELSE set)

\* the orders in which os.walk may yield the files
WalkOrders ==
  { o \in [1..Cardinality(ClassDirFiles) -> ClassDirFiles] :
      \A i, j \in DOMAIN o : i # j => o[i] # o[j] }

(***************************************************************************)
(* Names derived from a custom resource.                                   *)
(***************************************************************************)
\* '.'.join(custom_resource.name)
DotJoined(cr) == StrJoin(DOT, cr.name)

\* '0'.join(custom_resource.name)
NameCfn(cr) == StrJoin(ZERO, cr.name)

ZipFilename(cr) == DotJoined(cr) \o DOT_ZIP

ZipFullFilename(cr) == OsPathJoin(output_dir, ZipFilename(cr))

PipDir(cr) == OsPathJoin(output_dir, DotJoined(cr))

(***************************************************************************)
(* The file system: the regular files and the directories, by path.        *)
(***************************************************************************)
\* the name of a directory entry: the last component of its path
EntryName(pth) == DropChars(pth, RFindSep(pth))

HasSep(s) == \E i \in 1..Len(s) : s[i] = "/"

\* os.scandir(dir): the paths of the entries directly in dir
ScanDir(fsys, dir) ==
  { e \in fsys.files \cup fsys.dirs :
      /\ StartsWith(e, dir \o SEP)
      /\ Len(e) > Len(dir) + 1
      /\ ~HasSep(DropChars(e, Len(dir) + 1)) }

Below(pth, dir) == StartsWith(pth, dir \o SEP)

RmTreeKeep(fsys, dir) == fsys

\* shutil.rmtree(dir)
RmTree(fsys, dir) ==
  [files |-> { f \in fsys.files : ~Below(f, dir) },
   dirs |-> { d \in fsys.dirs : d # dir /\ ~Below(d, dir) }]

\* a tree rooted at root: relative files and directories made absolute
Rooted(root, relfiles, reldirs) ==
  [files |-> { OsPathJoin(root, f) : f \in relfiles },
   dirs |-> { OsPathJoin(root, d) : d \in reldirs } \cup {root}]

FsUnion(a, b) == [files |-> a.files \cup b.files, dirs |-> a.dirs \cup b.dirs]

EmptyFs == [files |-> {}, dirs |-> {}]

RECURSIVE FsUnionAll(_)
FsUnionAll(trees) ==
  IF trees = {} THEN EmptyFs
  ELSE LET t == CHOOSE x \in trees : TRUE
       IN  FsUnion(t, FsUnionAll(trees \ {t}))

(***************************************************************************)
(* The worlds the pipeline is run in.                                      *)
(***************************************************************************)
\* every resource the class directory could yield, were its directory there
Candidates ==
  UNION { FileResources(f[1], f[2],
            { LambdaCodeDir(FsPath(f[1], f[2]), a.name) :
                a \in ModuleAttrs(rec_split_path(FsPath(f[1], f[2]))) }) :
          f \in { g \in ClassDirFiles : EligibleFile(g[2]) } }

Features == {"requirements", "test", "cache", "shadow"}

\* what an implementation directory holds besides its handler h: a manifest,
\* a test directory, cache directories (one at the top, one nested below s),
\* and a copy of the output directory's layout (shadow)
ImplTree(cr, shape) ==
  LET shadow == PipDir(cr)
  IN  Rooted(cr.lambda_path,
        {<<"h">>}
          \cup (IF "requirements" \in shape THEN {REQUIREMENTS_TXT} ELSE {})
          \cup (IF "test" \in shape THEN {TEST \o SEP \o <<"t">>} ELSE {})
          \cup (IF "cache" \in shape
                THEN {PYCACHE \o SEP \o <<"x">>,
                      <<"s">> \o SEP \o PYCACHE \o SEP \o <<"x">>}
                ELSE {})
          \cup (IF "shadow" \in shape THEN {shadow \o SEP \o <<"f">>} ELSE {}),
        (IF "test" \in shape THEN {TEST} ELSE {})
          \cup (IF "cache" \in shape
                THEN {PYCACHE, <<"s">>, <<"s">> \o SEP \o PYCACHE}
                ELSE {})
          \cup (IF "shadow" \in shape THEN {output_dir, shadow} ELSE {}))

\* what pip install -t leaves in its target directory when it succeeds: a
\* module p, or a package named test
PipPackages ==
  { [files |-> {<<"p">>}, dirs |-> {}],
    [files |-> {TEST \o SEP \o <<"q">>}, dirs |-> {TEST}] }

\* a target directory left behind by an earlier run
StaleTree(cr) == Rooted(PipDir(cr), {<<"z">>}, {})

\* the directories above a path
RECURSIVE Ancestors(_)
Ancestors(pth) ==
  LET parent == OsPathSplit(pth)[1]
  IN  IF Len(parent) = 0 THEN {} ELSE {parent} \cup Ancestors(parent)

LambdaParents == UNION { Ancestors(cr.lambda_path) : cr \in Candidates }

World(present, shape, stale) ==
  FsUnion(
    [files |-> {}, dirs |-> {output_dir} \cup LambdaParents],
    FsUnion(FsUnionAll({ ImplTree(cr, shape) : cr \in present }),
            IF stale THEN FsUnionAll({ StaleTree(cr) : cr \in present })
            ELSE EmptyFs))

(***************************************************************************)
(* State of the step-by-step run of rec_split_path / rec_join_path.        *)
(***************************************************************************)
VARIABLES
  cpc,        \* position in the codec run
  p_in,       \* the path handed to rec_split_path
  segs_in,    \* the segments p_in was built from
  head,       \* rec_split_path: head
  l,          \* rec_split_path: l
  path_list,  \* rec_join_path: path_list
  path,       \* rec_join_path: path
  iters,      \* iterations of the while loop of rec_split_path so far
  pc,                \* position of the pipeline
  fs,                \* the file system: [files, dirs]
  custom_resources,  \* the set defined_custom_resources returned
  todo,              \* the resources the for loop has not yet reached
  custom_resource,   \* the resource of the current iteration
  entries,           \* create_zip_file: entries
  requirements,      \* create_zip_file: requirements (None or an entry)
  test,              \* create_zip_file: test (None or an entry)
  zips,              \* the ZIP files on disk: full file name -> [open, members],
                     \* members the bag of (src, arcname) written by zip.write
  zip_filename,      \* what create_zip_file returned
  role,              \* the role resource added last (by title)
  awslambdafunction, \* the function resource added last (by title)
  resources,         \* template.resources: title -> resource
  outputs,           \* template.outputs: title -> output
  cfn_written,       \* whether cfn.json has been written
  pip_failed         \* the resources for which pip.main reported failure

codecVars == <<cpc, p_in, segs_in, head, l, path_list, path, iters>>

pipeVars == <<pc, fs, custom_resources, todo, custom_resource, entries,
              requirements, test, zips, zip_filename, role, awslambdafunction,
              resources, outputs, cfn_written, pip_failed>>

vars == <<codecVars, pipeVars>>

EmptyMap == [x \in {} |-> x]

\* the pipeline at rest, for the runs of the path functions alone
PipeIdle ==
  /\ pc = "idle"
  /\ fs = EmptyFs
  /\ custom_resources = {}
  /\ todo = {}
  /\ custom_resource = None
  /\ entries = {}
  /\ requirements = None
  /\ test = None
  /\ zips = EmptyMap
  /\ zip_filename = None
  /\ role = None
  /\ awslambdafunction = None
  /\ resources = EmptyMap
  /\ outputs = EmptyMap
  /\ cfn_written = FALSE
  /\ pip_failed = {}

\* the path functions at rest, for the runs of the pipeline
CodecIdle ==
  /\ cpc = "idle"
  /\ p_in = <<>>
  /\ segs_in = <<>>
  /\ head = <<>>
  /\ l = <<>>
  /\ path_list = <<>>
  /\ path = <<>>
  /\ iters = 0

PathChars == {"a", "b"}

\* all non-empty segments of at most MaxSegLen characters
Segments == UNION {[1..n -> PathChars] : n \in 1..MaxSegLen}

\* all sequences of at most MaxSegs segments
SegmentLists == UNION {[1..n -> Segments] : n \in 0..MaxSegs}

\* a normalized relative path: its segments joined by the separator
Normalized(segs) == StrJoin(SEP, segs)

CodecInit ==
  /\ cpc = "split"
  /\ segs_in \in SegmentLists
  /\ p_in = Normalized(segs_in)
  /\ head = p_in
  /\ l = <<>>
  /\ path_list = <<>>
  /\ path = <<>>
  /\ iters = 0
  /\ PipeIdle

\* one iteration of the while loop of rec_split_path
SplitStep ==
  /\ cpc = "split"
  /\ Len(head) > 0
  /\ LET ht == OsPathSplit(head)
     IN  /\ head' = ht[1]
         /\ l' = <<ht[2]>> \o l
  /\ iters' = iters + 1
  /\ UNCHANGED <<cpc, p_in, segs_in, path_list, path>>
  /\ UNCHANGED pipeVars

\* rec_split_path returns l; rec_join_path is called on the result
SplitReturn ==
  /\ cpc = "split"
  /\ Len(head) = 0
  /\ cpc' = "join"
  /\ path_list' = l
  /\ UNCHANGED <<p_in, segs_in, head, l, path, iters>>
  /\ UNCHANGED pipeVars

\* rec_join_path up to its loop: the early returns and the first pop
JoinStart ==
  /\ cpc = "join"
  /\ IF Len(path_list) = 0
     THEN /\ path' = <<>>
          /\ cpc' = "done"
          /\ UNCHANGED path_list
     ELSE IF Len(path_list) = 1
     THEN /\ path' = path_list[1]
          /\ cpc' = "done"
          /\ UNCHANGED path_list
     ELSE /\ path' = Head(path_list)
          /\ path_list' = Tail(path_list)
          /\ cpc' = "joinloop"
  /\ UNCHANGED <<p_in, segs_in, head, l, iters>>
  /\ UNCHANGED pipeVars

\* one iteration of the while loop of rec_join_path
JoinStep ==
  /\ cpc = "joinloop"
  /\ Len(path_list) > 0
  /\ path' = OsPathJoin(path, Head(path_list))
  /\ path_list' = Tail(path_list)
  /\ UNCHANGED <<cpc, p_in, segs_in, head, l, iters>>
  /\ UNCHANGED pipeVars

JoinReturn ==
  /\ cpc = "joinloop"
  /\ Len(path_list) = 0
  /\ cpc' = "done"
  /\ UNCHANGED <<p_in, segs_in, head, l, path_list, path, iters>>
  /\ UNCHANGED pipeVars

CodecNext == SplitStep \/ SplitReturn \/ JoinStart \/ JoinStep \/ JoinReturn

SpecPath == CodecInit /\ [][CodecNext]_vars

\* C10: rec_split_path terminates within one iteration per segment and returns
\* the segments in root-to-leaf order, and rec_join_path of the result is the
\* path again; the empty path gives the empty list, and joining no segment
\* gives the empty string.
C10_RoundTrip ==
  /\ iters <= Len(segs_in)
  /\ (cpc = "split" /\ Len(head) = 0) => iters = Len(segs_in)
  /\ cpc \in {"join", "joinloop", "done"} => l = segs_in
  /\ cpc = "done" => path = p_in
  /\ (cpc = "done" /\ p_in = <<>>) => (l = <<>> /\ path = <<>>)

C10_Witness ==
  /\ cpc = "done"
  /\ Len(segs_in) = 3
  /\ path = p_in
  /\ l = segs_in

(***************************************************************************)
(* The pipeline.                                                           *)
(***************************************************************************)
\* a stale target directory is one an earlier run made for a manifest
WorldParams ==
  { w \in [present : { c \in SUBSET Candidates : Cardinality(c) <= MaxLambdaDirs },
           shape : SUBSET Features,
           stale : BOOLEAN] :
      w.stale => "requirements" \in w.shape }

Worlds == { World(w.present, w.shape, w.stale) : w \in WorldParams }

\* the state when the module-level loop is about to start: the output
\* directory has been made, nothing is in the template but its parameters
Init ==
  /\ CodecIdle
  /\ pc = "discover"
  /\ fs \in Worlds
  /\ custom_resources = {}
  /\ todo = {}
  /\ custom_resource = None
  /\ entries = {}
  /\ requirements = None
  /\ test = None
  /\ zips = EmptyMap
  /\ zip_filename = None
  /\ role = None
  /\ awslambdafunction = None
  /\ resources = EmptyMap
  /\ outputs = EmptyMap
  /\ cfn_written = FALSE
  /\ pip_failed = {}

zipVars == <<entries, requirements, test>>
templateVars == <<role, awslambdafunction, resources, outputs>>

\* defined_custom_resources(args.lambda_dir, args.class_dir)
Discover ==
  /\ pc = "discover"
  /\ \E order \in WalkOrders :
       /\ custom_resources' = Walk(order, fs.dirs, {})
       /\ todo' = custom_resources'
  /\ pc' = "loop"
  /\ UNCHANGED <<fs, custom_resource, zipVars, zips, zip_filename, templateVars,
                 cfn_written, pip_failed>>
  /\ UNCHANGED codecVars

\* the for loop takes the next resource of the set, in any order
LoopNext ==
  /\ pc = "loop"
  /\ todo # {}
  /\ \E cr \in todo :
       /\ custom_resource' = cr
       /\ todo' = todo \ {cr}
  /\ pc' = "open"
  /\ UNCHANGED <<fs, custom_resources, zipVars, zips, zip_filename, templateVars,
                 cfn_written, pip_failed>>
  /\ UNCHANGED codecVars

LoopEnd ==
  /\ pc = "loop"
  /\ todo = {}
  /\ pc' = "write"
  /\ UNCHANGED <<fs, custom_resources, todo, custom_resource, zipVars, zips,
                 zip_filename, templateVars, cfn_written, pip_failed>>
  /\ UNCHANGED codecVars

\* with open(os.path.join(args.output_dir, 'cfn.json'), 'w') as f: f.write(...)
WriteTemplate ==
  /\ pc = "write"
  /\ cfn_written' = TRUE
  /\ fs' = [fs EXCEPT !.files = @ \cup {OsPathJoin(output_dir, CFN_JSON)}]
  /\ pc' = "done"
  /\ UNCHANGED <<custom_resources, todo, custom_resource, zipVars, zips,
                 zip_filename, templateVars, pip_failed>>
  /\ UNCHANGED codecVars

(***************************************************************************)
(* create_zip_file(custom_resource, args.output_dir).                      *)
(***************************************************************************)
ZipStaysOpen(z, name) == z

\* ZipFile.__exit__: the archive is closed, whether the block ended or raised
Closed(z, name) == [z EXCEPT ![name].open = FALSE]

\* zipfile.ZipFile(zip_full_filename, mode='w'): the file is created (or
\* truncated) when the archive is opened
ZipOpen ==
  /\ pc = "open"
  /\ zips' = (ZipFullFilename(custom_resource) :> [open |-> TRUE, members |-> EmptyBag])
               @@ zips
  /\ pc' = "scan"
  /\ UNCHANGED <<fs, custom_resources, todo, custom_resource, zipVars,
                 zip_filename, templateVars, cfn_written, pip_failed>>
  /\ UNCHANGED codecVars

\* the entry of that name among the entries, or None
EntryNamed(es, name) ==
  IF \E e \in es : EntryName(e) = name
  THEN CHOOSE e \in es : EntryName(e) = name
  ELSE None

\* entries = set(os.scandir(lambda_path)) and the search for the top-level
\* requirements.txt and test
Scan ==
  /\ pc = "scan"
  /\ entries' = ScanDir(fs, custom_resource.lambda_path)
  /\ requirements' = EntryNamed(entries', REQUIREMENTS_TXT)
  /\ test' = EntryNamed(entries', TEST)
  /\ pc' = IF requirements' # None THEN "pip" ELSE "test"
  /\ UNCHANGED <<fs, custom_resources, todo, custom_resource, zips,
                 zip_filename, templateVars, cfn_written, pip_failed>>
  /\ UNCHANGED codecVars

\* entries.remove(requirements); pip.main(['install', '-r', ..., '-t', pip_dir]).
\* pip.main returns its status; the status is not looked at.  A successful
\* install fills the target directory; a failed one leaves the disk as it was.
PipInstall ==
  /\ pc = "pip"
  /\ entries' = entries \ {requirements}
  /\ \/ /\ \E pkg \in PipPackages :
             fs' = FsUnion(fs, Rooted(PipDir(custom_resource), pkg.files, pkg.dirs))
        /\ UNCHANGED pip_failed
     \/ /\ pip_failed' = pip_failed \cup {custom_resource}
        /\ UNCHANGED fs
  /\ pc' = "pipscan"
  /\ UNCHANGED <<custom_resources, todo, custom_resource, requirements, test, zips,
                 zip_filename, templateVars, cfn_written>>
  /\ UNCHANGED codecVars

\* entries.update(set(os.scandir(pip_dir))): FileNotFoundError when the
\* directory is not there, which leaves the with block and ends the program
PipScan ==
  /\ pc = "pipscan"
  /\ IF PipDir(custom_resource) \in fs.dirs
     THEN /\ entries' = entries \cup ScanDir(fs, PipDir(custom_resource))
          /\ pc' = "test"
          /\ UNCHANGED zips
     ELSE /\ zips' = Closed(zips, ZipFullFilename(custom_resource))
          /\ pc' = "aborted"
          /\ UNCHANGED entries
  /\ UNCHANGED <<fs, custom_resources, todo, custom_resource, requirements, test,
                 zip_filename, templateVars, cfn_written, pip_failed>>
  /\ UNCHANGED codecVars

KeepTest(es, t) == es

\* if test is not None: entries.remove(test)
WithoutTest(es, t) == IF t # None THEN es \ {t} ELSE es

RemoveTest ==
  /\ pc = "test"
  /\ entries' = WithoutTest(entries, test)
  /\ pc' = "expand"
  /\ UNCHANGED <<fs, custom_resources, todo, custom_resource, requirements, test,
                 zips, zip_filename, templateVars, cfn_written, pip_failed>>
  /\ UNCHANGED codecVars

\* the name under which a file is stored in the archive
ZipPath(entry_path, lambda_prefix, reqs, pip_dir) ==
  LET stripped == IF StartsWith(entry_path, lambda_prefix)
                  THEN DropChars(entry_path, Len(lambda_prefix) + 1)
                  ELSE entry_path
  IN  IF reqs # None /\ StartsWith(stripped, pip_dir)
      THEN DropChars(stripped, Len(pip_dir) + 1)
      ELSE stripped

NeverCache(name) == FALSE

\* entry.name == "__pycache__"
IsCache(name) == name = PYCACHE

\* one iteration of the while loop: entries.pop() and what is done with it
Expand ==
  /\ pc = "expand"
  /\ entries # {}
  /\ \E entry \in entries :
       IF entry \in fs.dirs
       THEN /\ entries' = IF IsCache(EntryName(entry))
                          THEN entries \ {entry}
                          ELSE (entries \ {entry}) \cup ScanDir(fs, entry)
            /\ UNCHANGED zips
       ELSE IF entry \in fs.files
       THEN /\ entries' = entries \ {entry}
            /\ zips' = [zips EXCEPT ![ZipFullFilename(custom_resource)].members =
                          @ (+) SetToBag({[src |-> entry,
                                           arcname |-> ZipPath(entry,
                                                         custom_resource.lambda_path,
                                                         requirements,
                                                         PipDir(custom_resource))]})]
       ELSE /\ entries' = entries \ {entry}
            /\ UNCHANGED zips
  /\ UNCHANGED <<pc, fs, custom_resources, todo, custom_resource, requirements, test,
                 zip_filename, templateVars, cfn_written, pip_failed>>
  /\ UNCHANGED codecVars

\* the loop is over; if requirements is not None: shutil.rmtree(pip_dir).
\* This is still inside the with block: the archive is open.
Cleanup ==
  /\ pc = "expand"
  /\ entries = {}
  /\ fs' = IF requirements # None THEN RmTree(fs, PipDir(custom_resource)) ELSE fs
  /\ pc' = "close"
  /\ UNCHANGED <<custom_resources, todo, custom_resource, zipVars, zips,
                 zip_filename, templateVars, cfn_written, pip_failed>>
  /\ UNCHANGED codecVars

\* the with block ends: the archive is closed; return zip_filename
ZipClose ==
  /\ pc = "close"
  /\ zips' = Closed(zips, ZipFullFilename(custom_resource))
  /\ zip_filename' = ZipFilename(custom_resource)
  /\ pc' = "role"
  /\ UNCHANGED <<fs, custom_resources, todo, custom_resource, zipVars,
                 templateVars, cfn_written, pip_failed>>
  /\ UNCHANGED codecVars

(***************************************************************************)
(* Template assembly: the rest of the loop body.                           *)
(*                                                                         *)
(* template.add_resource and template.add_output (troposphere) keep the    *)
(* objects by title and raise ValueError for a title already in use; the   *)
(* error is not caught, so it ends the program.  GetAtt(resource, 'Arn')   *)
(* refers to the resource by its title.                                    *)
(***************************************************************************)
loopFrame == <<fs, custom_resources, todo, custom_resource, zipVars, zips,
               zip_filename, cfn_written, pip_failed>>

RoleTitle(cr) == NameCfn(cr) \o ROLE
FunctionTitle(cr) == NameCfn(cr) \o FUNCTION
LogsTitle(cr) == NameCfn(cr) \o LOGS
ServiceTokenTitle(cr) == NameCfn(cr) \o SERVICE_TOKEN

\* custom_resource.troposphere_class.lambda_role("<name>Role")
RoleResource(cr) ==
  [type |-> "Role", title |-> RoleTitle(cr), lambda_role_of |-> cr.troposphere_class]

FunctionOfOtherRole(cr, zipname, role_title) ==
  [type |-> "Function",
   title |-> FunctionTitle(cr),
   S3Bucket |-> [Ref |-> "S3Bucket"],
   S3Key |-> [Join |-> <<[Ref |-> "S3Path"], zipname>>],
   Role |-> [GetAtt |-> StrJoin(DOT, cr.name) \o ROLE, attr |-> "Arn"],
   function_settings_of |-> cr.troposphere_class]

\* awslambda.Function("<name>Function", Code=..., Role=GetAtt(role, 'Arn'), ...)
FunctionResource(cr, zipname, role_title) ==
  [type |-> "Function",
   title |-> FunctionTitle(cr),
   S3Bucket |-> [Ref |-> "S3Bucket"],
   S3Key |-> [Join |-> <<[Ref |-> "S3Path"], zipname>>],
   Role |-> [GetAtt |-> role_title, attr |-> "Arn"],
   function_settings_of |-> cr.troposphere_class]

\* logs.LogGroup("<name>Logs", LogGroupName=Sub(...), RetentionInDays=90)
LogsResource(cr) ==
  [type |-> "LogGroup",
   title |-> LogsTitle(cr),
   LogGroupName |-> AWS_LAMBDA_SLASH \o DotJoined(cr) \o DASH_STACK_NAME,
   RetentionInDays |-> RetentionInDays]

\* Output("<name>ServiceToken", Value=GetAtt(awslambdafunction, 'Arn'), ...)
ServiceTokenOutput(cr, function_title) ==
  [title |-> ServiceTokenTitle(cr),
   Value |-> [GetAtt |-> function_title, attr |-> "Arn"],
   Description |-> DotJoined(cr),
   Export |-> STACK_NAME_DASH \o NameCfn(cr) \o SERVICE_TOKEN]

\* Output("<name>Role", Value=GetAtt(role, 'Arn'), ...)
RoleOutput(cr, role_title) ==
  [title |-> RoleTitle(cr),
   Value |-> [GetAtt |-> role_title, attr |-> "Arn"],
   Description |-> DotJoined(cr),
   Export |-> STACK_NAME_DASH \o NameCfn(cr) \o ROLE]

AddRole ==
  /\ pc = "role"
  /\ LET r == RoleResource(custom_resource)
     IN  IF r.title \in DOMAIN resources
         THEN /\ pc' = "aborted"
              /\ UNCHANGED <<role, resources>>
         ELSE /\ resources' = (r.title :> r) @@ resources
              /\ role' = r.title
              /\ pc' = "function"
  /\ UNCHANGED <<awslambdafunction, outputs>>
  /\ UNCHANGED loopFrame
  /\ UNCHANGED codecVars

AddFunction ==
  /\ pc = "function"
  /\ LET f == FunctionResource(custom_resource, zip_filename, role)
     IN  IF f.title \in DOMAIN resources
         THEN /\ pc' = "aborted"
              /\ UNCHANGED <<awslambdafunction, resources>>
         ELSE /\ resources' = (f.title :> f) @@ resources
              /\ awslambdafunction' = f.title
              /\ pc' = "logs"
  /\ UNCHANGED <<role, outputs>>
  /\ UNCHANGED loopFrame
  /\ UNCHANGED codecVars

AddLogs ==
  /\ pc = "logs"
  /\ LET g == LogsResource(custom_resource)
     IN  IF g.title \in DOMAIN resources
         THEN /\ pc' = "aborted"
              /\ UNCHANGED resources
         ELSE /\ resources' = (g.title :> g) @@ resources
              /\ pc' = "out_token"
  /\ UNCHANGED <<role, awslambdafunction, outputs>>
  /\ UNCHANGED loopFrame
  /\ UNCHANGED codecVars

AddServiceTokenOutput ==
  /\ pc = "out_token"
  /\ LET o == ServiceTokenOutput(custom_resource, awslambdafunction)
     IN  IF o.title \in DOMAIN outputs
         THEN /\ pc' = "aborted"
              /\ UNCHANGED outputs
         ELSE /\ outputs' = (o.title :> o) @@ outputs
              /\ pc' = "out_role"
  /\ UNCHANGED <<role, awslambdafunction, resources>>
  /\ UNCHANGED loopFrame
  /\ UNCHANGED codecVars

\* the last statement of the loop body
AddRoleOutput ==
  /\ pc = "out_role"
  /\ LET o == RoleOutput(custom_resource, role)
     IN  IF o.title \in DOMAIN outputs
         THEN /\ pc' = "aborted"
              /\ UNCHANGED outputs
         ELSE /\ outputs' = (o.title :> o) @@ outputs
              /\ pc' = "loop"
  /\ UNCHANGED <<role, awslambdafunction, resources>>
  /\ UNCHANGED loopFrame
  /\ UNCHANGED codecVars

Next ==
  \/ Discover
  \/ LoopNext
  \/ LoopEnd
  \/ WriteTemplate
  \/ ZipOpen
  \/ Scan
  \/ PipInstall
  \/ PipScan
  \/ RemoveTest
  \/ Expand
  \/ Cleanup
  \/ ZipClose
  \/ AddRole
  \/ AddFunction
  \/ AddLogs
  \/ AddServiceTokenOutput
  \/ AddRoleOutput

Spec == Init /\ [][Next]_vars

(***************************************************************************)
(* Notions the properties are stated with.                                 *)
(***************************************************************************)
ZipOf(cr) == zips[ZipFullFilename(cr)]

HasZip(cr) == ZipFullFilename(cr) \in DOMAIN zips

\* create_zip_file has returned for cr
Built(cr) ==
  /\ cr \in custom_resources \ todo
  /\ cr # custom_resource \/ zip_filename = ZipFilename(cr)

\* the template entries the loop body makes for cr
ResourcesOf(cr) ==
  { RoleResource(cr),
    FunctionResource(cr, ZipFilename(cr), RoleTitle(cr)),
    LogsResource(cr) }

OutputsOf(cr) ==
  { ServiceTokenOutput(cr, FunctionTitle(cr)), RoleOutput(cr, RoleTitle(cr)) }

TemplateEntries ==
  { resources[t] : t \in DOMAIN resources } \cup { outputs[t] : t \in DOMAIN outputs }

EntriesOf(cr) == TemplateEntries \cap (ResourcesOf(cr) \cup OutputsOf(cr))

\* the sources zip.write was called with, and how often
Sources(cr) == { m.src : m \in BagToSet(ZipOf(cr).members) }

TimesWritten(cr, f) ==
  LET ms == { m \in BagToSet(ZipOf(cr).members) : m.src = f }
  IN  IF ms = {} THEN 0
      ELSE IF Cardinality(ms) = 1
           THEN CopiesIn(CHOOSE m \in ms : TRUE, ZipOf(cr).members)
           ELSE 2

\* f lies below a directory named __pycache__ somewhere under root
BelowCache(f, root) ==
  LET segs == rec_split_path(DropChars(f, Len(root) + 1))
  IN  \E i \in 1..(Len(segs) - 1) : segs[i] = PYCACHE

TestEntry(cr) == OsPathJoin(cr.lambda_path, TEST)

ManifestEntry(cr) == OsPathJoin(cr.lambda_path, REQUIREMENTS_TXT)

HasManifest(cr) == ManifestEntry(cr) \in fs.files

\* the files of the staged tree of the resource being packed: the
\* implementation tree, and the target directory when a manifest was found
StagedFiles ==
  { f \in fs.files :
      \/ Below(f, custom_resource.lambda_path)
      \/ requirements # None /\ Below(f, PipDir(custom_resource)) }

StagedRoot(f) ==
  IF Below(f, custom_resource.lambda_path)
  THEN custom_resource.lambda_path ELSE PipDir(custom_resource)

\* the staged files that lie neither below a __pycache__ directory nor at or
\* below the top-level test entry
NotExcluded ==
  { f \in StagedFiles :
      /\ ~BelowCache(f, StagedRoot(f))
      /\ f # TestEntry(custom_resource)
      /\ ~Below(f, TestEntry(custom_resource)) }

\* the while loop of create_zip_file has ended and nothing was done since
LoopOver == pc = "expand" /\ entries = {}

(***************************************************************************)
(* C1                                                                      *)
(***************************************************************************)
\* C1 (as stated): nothing is added to the template for any descriptor until
\* the archive build of every discovered descriptor has completed.
C1_AssemblyAfterAllArchives ==
  TemplateEntries # {} => \A cr \in custom_resources : Built(cr)

\* C1 (amended): an entry is added to the template only for the descriptor of
\* the current iteration, and only once that descriptor's own archive build
\* has completed and its archive is closed; the archives of the descriptors
\* later in the loop are built after that.
C1_AssemblyAfterOwnArchive ==
  [][(resources' # resources \/ outputs' # outputs)
     => /\ custom_resource' = custom_resource
        /\ Built(custom_resource)
        /\ HasZip(custom_resource)
        /\ ~ZipOf(custom_resource).open
        /\ \A t \in DOMAIN resources' \ DOMAIN resources :
             resources'[t] \in ResourcesOf(custom_resource)
        /\ \A t \in DOMAIN outputs' \ DOMAIN outputs :
             outputs'[t] \in OutputsOf(custom_resource)
        /\ \A t \in DOMAIN resources : resources'[t] = resources[t]
        /\ \A t \in DOMAIN outputs : outputs'[t] = outputs[t]]_vars

C1_Witness ==
  /\ pc = "logs"
  /\ todo # {}
  /\ EntriesOf(custom_resource) # {}
  /\ \E cr \in todo : ~HasZip(cr)

(***************************************************************************)
(* C2, C3                                                                  *)
(***************************************************************************)
\* C2: once pip.main has reported failure for a descriptor, nothing is in the
\* template for that descriptor, no later descriptor is processed, and
\* cfn.json is never written.
C2_AbortOnResolutionFailure ==
  \A cr \in pip_failed :
    /\ EntriesOf(cr) = {}
    /\ custom_resource = cr
    /\ ~cfn_written

\* C3: after a build in which pip.main reported failure, no archive file of
\* that descriptor exists in the output directory.
C3_NoPartialArchive ==
  \A cr \in pip_failed :
    (Built(cr) \/ (pc = "aborted" /\ custom_resource = cr)) => ~HasZip(cr)

(***************************************************************************)
(* C4                                                                      *)
(***************************************************************************)
\* C4: every file written to an archive is stored under its path relative to
\* the root it came from: a file of the implementation tree relative to the
\* implementation root, a file of the target directory relative to the
\* target directory.
C4_ExactlyOneStrip ==
  \A cr \in custom_resources :
    HasZip(cr) =>
      \A m \in BagToSet(ZipOf(cr).members) :
        /\ Below(m.src, cr.lambda_path) =>
             m.arcname = DropChars(m.src, Len(cr.lambda_path) + 1)
        /\ Below(m.src, PipDir(cr)) =>
             m.arcname = DropChars(m.src, Len(PipDir(cr)) + 1)

(***************************************************************************)
(* C5                                                                      *)
(***************************************************************************)
\* C5: two discovered descriptors with distinct names have distinct flattened
\* identifiers.
C5_FlattenInjective ==
  \A a, b \in custom_resources :
    a.name # b.name => StrJoin(ZERO, a.name) # StrJoin(ZERO, b.name)

(***************************************************************************)
(* C6                                                                      *)
(***************************************************************************)
\* C6: the entry named test at the implementation root is never written to
\* the archive, and neither is any file below it.
C6_TestNeverArchived ==
  \A cr \in custom_resources :
    HasZip(cr) =>
      \A f \in Sources(cr) : f # TestEntry(cr) /\ ~Below(f, TestEntry(cr))

C6_Witness ==
  \E cr \in custom_resources :
    /\ Built(cr)
    /\ TestEntry(cr) \in fs.dirs
    /\ \E f \in fs.files : Below(f, TestEntry(cr))
    /\ \E m \in BagToSet(ZipOf(cr).members) : m.arcname = TEST \o SEP \o <<"q">>

(***************************************************************************)
(* C7                                                                      *)
(***************************************************************************)
NoCacheWritten ==
  \A cr \in custom_resources :
    HasZip(cr) =>
      \A f \in Sources(cr) :
        ~BelowCache(f, cr.lambda_path) /\ ~BelowCache(f, PipDir(cr))

\* C7 (as stated): nothing at or below a __pycache__ directory is written, and
\* when the loop ends every other file of the staged tree that is not at or
\* below the top-level test entry has been written exactly once.
C7_OthersWrittenOnce ==
  /\ NoCacheWritten
  /\ LoopOver =>
       /\ Sources(custom_resource) \subseteq NotExcluded
       /\ \A f \in NotExcluded : TimesWritten(custom_resource, f) = 1

\* C7 (amended): as stated, except that the top-level requirements.txt is not
\* written either.
C7_OthersButManifestWrittenOnce ==
  /\ NoCacheWritten
  /\ LoopOver =>
       /\ Sources(custom_resource) = NotExcluded \ {ManifestEntry(custom_resource)}
       /\ \A f \in NotExcluded \ {ManifestEntry(custom_resource)} :
            TimesWritten(custom_resource, f) = 1

C7_Witness ==
  /\ LoopOver
  /\ requirements # None
  /\ \E f \in StagedFiles : BelowCache(f, StagedRoot(f))
  /\ \E f \in StagedFiles : Below(f, PipDir(custom_resource))
  /\ Cardinality(Sources(custom_resource)) >= 2

(***************************************************************************)
(* C8                                                                      *)
(***************************************************************************)
\* C8 (as stated): when a manifest was found, the target directory is removed
\* only after the archive has been closed.
C8_RemovedAfterClose ==
  [][(/\ pc \in {"test", "expand", "close"}
      /\ requirements # None
      /\ PipDir(custom_resource) \in fs.dirs
      /\ PipDir(custom_resource) \notin fs'.dirs)
     => ~ZipOf(custom_resource).open]_vars

\* C8 (amended): when a manifest was found, the target directory is there
\* while the files are written, is removed once the last file has been
\* written and before the archive is closed, and after a build that returned
\* neither it nor anything below it exists.
C8_RemovedBeforeClose ==
  /\ (pc \in {"test", "expand"} /\ requirements # None)
       => PipDir(custom_resource) \in fs.dirs
  /\ (pc = "close" /\ requirements # None)
       => /\ PipDir(custom_resource) \notin fs.dirs
          /\ entries = {}
          /\ ZipOf(custom_resource).open
  /\ \A cr \in custom_resources :
       (Built(cr) /\ HasManifest(cr))
         => /\ ~ZipOf(cr).open
            /\ PipDir(cr) \notin fs.dirs
            /\ \A f \in fs.files \cup fs.dirs : ~Below(f, PipDir(cr))

C8_Witness ==
  /\ pc = "role"
  /\ requirements # None
  /\ custom_resource \notin pip_failed
  /\ PipDir(custom_resource) \notin fs.dirs
  /\ \E f \in Sources(custom_resource) : Below(f, PipDir(custom_resource))

(***************************************************************************)
(* C9                                                                      *)
(***************************************************************************)
\* C9: after a run that completes, every discovered descriptor has its Role,
\* Function and Logs resources and its ServiceToken and Role outputs, named
\* with the name segments joined by 0; the function's role and the Role
\* output refer to the role made by the same descriptor's class, the
\* ServiceToken output refers to the function of the same descriptor, and the
\* function's code key is the path parameter joined with the dot-joined name
\* plus .zip, the archive that build made for the same descriptor.
C9_TemplateComplete ==
  pc = "done" =>
    \A cr \in custom_resources :
      LET flat == StrJoin(<<"0">>, cr.name)
          zipname == StrJoin(<<".">>, cr.name) \o DOT_ZIP
      IN  /\ {flat \o ROLE, flat \o FUNCTION, flat \o LOGS} \subseteq DOMAIN resources
          /\ {flat \o SERVICE_TOKEN, flat \o ROLE} \subseteq DOMAIN outputs
          /\ resources[flat \o ROLE].type = "Role"
          /\ resources[flat \o ROLE].lambda_role_of = cr.troposphere_class
          /\ resources[flat \o FUNCTION].type = "Function"
          /\ resources[flat \o FUNCTION].function_settings_of = cr.troposphere_class
          /\ resources[flat \o FUNCTION].Role = [GetAtt |-> flat \o ROLE, attr |-> "Arn"]
          /\ resources[flat \o FUNCTION].S3Key = [Join |-> <<[Ref |-> "S3Path"], zipname>>]
          /\ OsPathJoin(output_dir, zipname) \in DOMAIN zips
          /\ ~zips[OsPathJoin(output_dir, zipname)].open
          /\ resources[flat \o LOGS].type = "LogGroup"
          /\ outputs[flat \o SERVICE_TOKEN].Value =
               [GetAtt |-> flat \o FUNCTION, attr |-> "Arn"]
          /\ outputs[flat \o SERVICE_TOKEN].Export =
               STACK_NAME_DASH \o flat \o SERVICE_TOKEN
          /\ outputs[flat \o ROLE].Value = [GetAtt |-> flat \o ROLE, attr |-> "Arn"]
          /\ outputs[flat \o ROLE].Export = STACK_NAME_DASH \o flat \o ROLE

C9_Witness ==
  /\ pc = "done"
  /\ cfn_written
  /\ Cardinality(custom_resources) = 2
  /\ Cardinality(DOMAIN resources) = 6
  /\ Cardinality(DOMAIN outputs) = 4

====
